---- MODULE Spec2Model ----
(***************************************************************************)
(* Model of record_timelapse.py: the RecorderApp process-supervision core. *)
(*                                                                         *)
(* The host is one asyncio program.  A handler runs atomically up to an    *)
(* await that suspends; the asyncio.sleep(3) of stop_recording and         *)
(* cancel_recording, with the recompose() that follows it, is taken as one *)
(* suspension.  While a handler is suspended other key-binding actions and *)
(* button presses may be handled.                                          *)
(*                                                                         *)
(* The encoder child (ffmpeg) is an external process: it creates its       *)
(* output file while it runs and exits at a time of its own after it was   *)
(* signalled; the host never waits on it.  The output path is named after  *)
(* the wall-clock second at which start_recording runs; the clock is the   *)
(* environment's, so the timestamp is an input of start_recording.         *)
(* The model ends when the host process ends.                              *)
(***************************************************************************)
EXTENDS Integers, Sequences, FiniteSets

\* ---- bounds of the model ----
MaxChildren == 2
MaxPaths == 2

\* ---- program constants ----
WINDOW_MAX_WIDTH == 4
WINDOW_MAX_HEIGHT == 3

CTRL_BREAK_EVENT == "CTRL_BREAK_EVENT"
SIGTERM == "SIGTERM"

\* window handles offered by the Select widget; 0 is Select.BLANK
Windows == {1}
\* wall-clock seconds, one output path each
Paths == 1..MaxPaths
\* rectangles GetWindowRect may return: a window inside the screen, a
\* maximised window with its 8px border, a minimised (all negative) one
Rects == { <<1, 1, 3, 2>>,
           <<0 - 8, 0 - 8, WINDOW_MAX_WIDTH + 8, WINDOW_MAX_HEIGHT + 8>>,
           <<0 - 5, 0 - 5, 0 - 2, 0 - 3>> }

VARIABLES
    hwid,           \* RecorderApp.hwid
    box,            \* RecorderApp.box
    process,        \* RecorderApp.process: 0 is None, else a handle (index into children)
    PID,            \* module-level PID
    started,        \* RecorderApp.started
    cmd,            \* RecorderApp.cmd (region and output path only)
    startDisabled,  \* disabled attribute of Button #start
    selectDisabled, \* disabled attribute of the Select widget
    children,       \* every child spawned so far: the signals the host sent it, in
                    \* order, and the stop/cancel handler that tore it down
    files,          \* output paths present on disk
    hostState,      \* "running" or "exited"
    exitKind,       \* how the host ended: "none", "exit", "crash_pid", "reraise"
    exitCode        \* status passed to sys.exit

vars == <<hwid, box, process, PID, started, cmd, startDisabled, selectDisabled,
          children, files, hostState, exitKind, exitCode>>

Max(a, b) == IF a >= b THEN a ELSE b
Min(a, b) == IF a <= b THEN a ELSE b

AllNegative(b) == \A i \in 1..4 : b[i] < 0

NoCmd == [offset_x |-> 0, offset_y |-> 0, video_w |-> 0, video_h |-> 0, path |-> 0 - 1]

\* the command line start_recording builds (region and output path)
BuildCmd(b, t) ==
    [offset_x |-> Max(b[1], 0),
     offset_y |-> Max(b[2], 0),
     video_w  |-> Min(b[3], WINDOW_MAX_WIDTH),
     video_h  |-> Min(b[4], WINDOW_MAX_HEIGHT),
     path     |-> t]

\* update_win_dimensions: the rectangle stored for a GetWindowRect result
WinDimensions(r) ==
    IF \/ r[1] = 0 - 8
       \/ r[2] = 0 - 8
       \/ r[3] = WINDOW_MAX_WIDTH + 8
       \/ r[4] = WINDOW_MAX_HEIGHT + 8
    THEN <<r[1] + 8, r[2] + 8, r[3] - 8, r[4] - 8>>
    ELSE r

Handles == DOMAIN children
Alive(h) == children[h].state = "alive"
Sent(h, sig) == \E i \in DOMAIN children[h].sigs : children[h].sigs[i].sig = sig
Signalled(h) == children[h].sigs # <<>>
HandlerPending(h) == children[h].pc = "sleep"

\* values datetime.now() may return: the wall clock does not run backwards,
\* cmd holds the timestamp of the latest start
Timestamps == {t \in Paths : t >= cmd.path}

\* Popen(...).pid of the child behind a handle
PidOf(h) == 100 + h

Init ==
    /\ hwid = 0
    /\ box = <<0, 0, 1, 1>>
    /\ process = 0
    /\ PID = 0
    /\ started = FALSE
    /\ cmd = NoCmd
    /\ startDisabled = TRUE
    /\ selectDisabled = FALSE
    /\ children = <<>>
    /\ files = {}
    /\ hostState = "running"
    /\ exitKind = "none"
    /\ exitCode = 0

\* ---- the three process operations ----

\* start_recording: returns early when a handle is held, else builds the
\* command and spawns the child
start_recording(t) ==
    IF process # 0
    THEN UNCHANGED <<process, PID, cmd, children>>
    ELSE /\ Len(children) < MaxChildren
         /\ cmd' = BuildCmd(box, t)
         /\ children' = Append(children,
                [path |-> t, state |-> "alive", sigs |-> <<>>,
                 teardown |-> "none", pc |-> "none", origin |-> "none"])
         /\ process' = Len(children) + 1
         /\ PID' = PidOf(Len(children) + 1)

\* stop_recording / cancel_recording up to the await asyncio.sleep(3):
\* signal the child, drop the handle, clear PID, suspend
Teardown(kind, sig, origin) ==
    /\ process # 0
    /\ children' = [children EXCEPT ![process] =
            [@ EXCEPT !.sigs = Append(@, [sig |-> sig, by |-> kind]),
                      !.teardown = kind, !.pc = "sleep", !.origin = origin]]
    /\ process' = 0
    /\ PID' = 0

\* stop_recording without its "PID = 0"
stop_recording_keeps_PID(origin) ==
    /\ process # 0
    /\ children' = [children EXCEPT ![process] =
            [@ EXCEPT !.sigs = Append(@, [sig |-> CTRL_BREAK_EVENT, by |-> "stop"]),
                      !.teardown = "stop", !.pc = "sleep", !.origin = origin]]
    /\ process' = 0
    /\ PID' = PID

stop_recording(origin) == Teardown("stop", CTRL_BREAK_EVENT, origin)

cancel_recording(origin) == Teardown("cancel", SIGTERM, origin)

\* the caller's statements after an await that returned without suspending
AfterAwait ==
    /\ selectDisabled' = FALSE
    /\ started' = FALSE

\* ---- key-binding actions ----

\* action_start_recording without its "not self.hwid" test
action_start_recording_any_hwid ==
    /\ hostState = "running"
    /\ IF started \/ AllNegative(box)
       THEN UNCHANGED vars
       ELSE /\ \E t \in Timestamps : start_recording(t)
            /\ selectDisabled' = TRUE
            /\ started' = TRUE
            /\ UNCHANGED <<hwid, box, startDisabled, files, hostState, exitKind, exitCode>>

action_start_recording ==
    /\ hostState = "running"
    /\ IF started \/ hwid = 0 \/ AllNegative(box)
       THEN UNCHANGED vars
       ELSE /\ \E t \in Timestamps : start_recording(t)
            /\ selectDisabled' = TRUE
            /\ started' = TRUE
            /\ UNCHANGED <<hwid, box, startDisabled, files, hostState, exitKind, exitCode>>

action_stop_recording ==
    /\ hostState = "running"
    /\ IF ~started
       THEN UNCHANGED vars
       ELSE IF process = 0
            THEN /\ AfterAwait
                 /\ UNCHANGED <<hwid, box, process, PID, cmd, startDisabled, children,
                                files, hostState, exitKind, exitCode>>
            ELSE /\ stop_recording("handler")
                 /\ UNCHANGED <<hwid, box, started, cmd, startDisabled, selectDisabled,
                                files, hostState, exitKind, exitCode>>

action_cancel_recording ==
    /\ hostState = "running"
    /\ IF ~started
       THEN UNCHANGED vars
       ELSE IF process = 0
            THEN /\ AfterAwait
                 /\ UNCHANGED <<hwid, box, process, PID, cmd, startDisabled, children,
                                files, hostState, exitKind, exitCode>>
            ELSE /\ cancel_recording("handler")
                 /\ UNCHANGED <<hwid, box, started, cmd, startDisabled, selectDisabled,
                                files, hostState, exitKind, exitCode>>

\* action_exit: await action_stop_recording(), then sys.exit()
action_exit ==
    /\ hostState = "running"
    /\ IF ~started
       THEN /\ hostState' = "exited"
            /\ exitKind' = "exit"
            /\ exitCode' = 0
            /\ UNCHANGED <<hwid, box, process, PID, started, cmd, startDisabled,
                           selectDisabled, children, files>>
       ELSE IF process = 0
            THEN /\ AfterAwait
                 /\ hostState' = "exited"
                 /\ exitKind' = "exit"
                 /\ exitCode' = 0
                 /\ UNCHANGED <<hwid, box, process, PID, cmd, startDisabled, children,
                                files>>
            ELSE /\ stop_recording("exit")
                 /\ UNCHANGED <<hwid, box, started, cmd, startDisabled, selectDisabled,
                                files, hostState, exitKind, exitCode>>

\* ---- button presses ----

\* Button #start can be pressed only while it is enabled
on_button_pressed_start ==
    /\ hostState = "running"
    /\ ~startDisabled
    /\ IF AllNegative(box)
       THEN UNCHANGED vars
       ELSE /\ \E t \in Timestamps : start_recording(t)
            /\ selectDisabled' = TRUE
            /\ started' = TRUE
            /\ UNCHANGED <<hwid, box, startDisabled, files, hostState, exitKind, exitCode>>

on_button_pressed_stop ==
    /\ hostState = "running"
    /\ IF process = 0
       THEN /\ AfterAwait
            /\ UNCHANGED <<hwid, box, process, PID, cmd, startDisabled, children,
                           files, hostState, exitKind, exitCode>>
       ELSE /\ stop_recording("handler")
            /\ UNCHANGED <<hwid, box, started, cmd, startDisabled, selectDisabled,
                           files, hostState, exitKind, exitCode>>

on_button_pressed_cancel ==
    /\ hostState = "running"
    /\ IF process = 0
       THEN /\ AfterAwait
            /\ UNCHANGED <<hwid, box, process, PID, cmd, startDisabled, children,
                           files, hostState, exitKind, exitCode>>
       ELSE /\ cancel_recording("handler")
            /\ UNCHANGED <<hwid, box, started, cmd, startDisabled, selectDisabled,
                           files, hostState, exitKind, exitCode>>

\* ---- resumption of a suspended stop/cancel handler ----

\* asyncio.sleep(3) is over and recompose() has rebuilt the widgets of
\* compose() (Button #start disabled, a fresh enabled Select); then
\* cancel_recording unlinks cmd[-1], the caller clears started, and
\* action_exit calls sys.exit()
handler_resume(h) ==
    /\ hostState = "running"
    /\ children[h].pc = "sleep"
    /\ children' = [children EXCEPT ![h].pc = "done"]
    /\ startDisabled' = TRUE
    /\ files' = IF children[h].teardown = "cancel" THEN files \ {cmd.path} ELSE files
    /\ selectDisabled' = FALSE
    /\ started' = FALSE
    /\ IF children[h].origin = "exit"
       THEN /\ hostState' = "exited"
            /\ exitKind' = "exit"
            /\ exitCode' = 0
       ELSE UNCHANGED <<hostState, exitKind, exitCode>>
    /\ UNCHANGED <<hwid, box, process, PID, cmd>>

\* ---- window selection ----

select_changed(value, rect) ==
    /\ hostState = "running"
    /\ ~selectDisabled
    /\ IF value = 0
       THEN /\ hwid' = 0
            /\ box' = <<0, 0, 1, 1>>
            /\ startDisabled' = TRUE
       ELSE /\ hwid' = value
            /\ box' = WinDimensions(rect)
            /\ startDisabled' = FALSE
    /\ UNCHANGED <<process, PID, started, cmd, selectDisabled, children, files, hostState, exitKind, exitCode>>

\* ---- __main__: an Exception escapes app.run() ----

\* except Exception: with PID set, os.kill(PID, CTRL_BREAK_EVENT), sleep(5),
\* os.kill(PID, SIGTERM) and sys.exit(PID); with PID 0 the exception is re-raised
\* the except block without its first os.kill
main_except_term_only ==
    /\ hostState = "running"
    /\ hostState' = "exited"
    /\ IF PID # 0
       THEN /\ children' = [children EXCEPT ![process].sigs =
                    Append(@, [sig |-> SIGTERM, by |-> "except"])]
            /\ exitKind' = "crash_pid"
            /\ exitCode' = PID
       ELSE /\ exitKind' = "reraise"
            /\ exitCode' = 1
            /\ UNCHANGED children
    /\ UNCHANGED <<hwid, box, process, PID, started, cmd, startDisabled, selectDisabled,
                   files>>

main_except ==
    /\ hostState = "running"
    /\ hostState' = "exited"
    /\ IF PID # 0
       THEN /\ children' = [children EXCEPT ![process].sigs =
                    @ \o << [sig |-> CTRL_BREAK_EVENT, by |-> "except"],
                            [sig |-> SIGTERM, by |-> "except"] >>]
            /\ exitKind' = "crash_pid"
            /\ exitCode' = PID
       ELSE /\ exitKind' = "reraise"
            /\ exitCode' = 1
            /\ UNCHANGED children
    /\ UNCHANGED <<hwid, box, process, PID, started, cmd, startDisabled, selectDisabled,
                   files>>

\* ---- environment: the encoder child ----

\* ffmpeg creates its output file while it runs
child_write(h) ==
    /\ hostState = "running"
    /\ Alive(h)
    /\ ~Sent(h, SIGTERM)
    /\ children[h].path \notin files
    /\ files' = files \cup {children[h].path}
    /\ UNCHANGED <<hwid, box, process, PID, started, cmd, startDisabled, selectDisabled,
                   children, hostState, exitKind, exitCode>>

\* a signalled child exits at a time of its own
child_exit(h) ==
    /\ hostState = "running"
    /\ Alive(h)
    /\ Signalled(h)
    /\ children' = [children EXCEPT ![h].state = "exited"]
    /\ UNCHANGED <<hwid, box, process, PID, started, cmd, startDisabled, selectDisabled,
                   files, hostState, exitKind, exitCode>>

Next ==
    \/ action_start_recording
    \/ action_stop_recording
    \/ action_cancel_recording
    \/ action_exit
    \/ on_button_pressed_start
    \/ on_button_pressed_stop
    \/ on_button_pressed_cancel
    \/ \E h \in Handles : handler_resume(h)
    \/ \E v \in Windows \cup {0}, r \in Rects : select_changed(v, r)
    \/ main_except
    \/ \E h \in Handles : child_write(h)
    \/ \E h \in Handles : child_exit(h)

Spec == Init /\ [][Next]_vars

\* ---- properties ----

SpawnStep == Len(children') > Len(children)
CrashStep == hostState = "running" /\ exitKind' \in {"crash_pid", "reraise"}
ExceptSignals == << [sig |-> CTRL_BREAK_EVENT, by |-> "except"],
                    [sig |-> SIGTERM, by |-> "except"] >>
InsideScreen(b) ==
    /\ 0 <= b[1] /\ b[1] < b[3] /\ b[3] <= WINDOW_MAX_WIDTH
    /\ 0 <= b[2] /\ b[2] < b[4] /\ b[4] <= WINDOW_MAX_HEIGHT

\* C1: at any moment at most one encoder child spawned by the app is alive
\* (spawned and not yet terminated).
AtMostOneChildAlive ==
    Cardinality({h \in Handles : Alive(h)}) <= 1

CrashSignalsAliveChild ==
    [][(CrashStep /\ \E h \in Handles : Alive(h))
          => /\ exitKind' = "crash_pid"
             /\ \E h \in Handles :
                   /\ Alive(h)
                   /\ children'[h].sigs = children[h].sigs \o ExceptSignals
                   /\ exitCode' = PidOf(h)]_vars

\* C5 (amended): when the host crashes while a child handle is held, the
\* held child, still running and not yet signalled, is sent CTRL_BREAK_EVENT
\* and then SIGTERM, no other child is signalled, and the host exits with
\* that child's pid; when no handle is held (also during the wait of a stop
\* or cancel) nothing is sent and the exception is re-raised.
CrashSignalsHeldChild ==
    [][CrashStep
          => IF process # 0
             THEN /\ exitKind' = "crash_pid"
                  /\ Alive(process)
                  /\ children[process].sigs = <<>>
                  /\ children'[process].sigs = ExceptSignals
                  /\ \A h \in Handles \ {process} : children'[h] = children[h]
                  /\ exitCode' = PidOf(process)
             ELSE /\ exitKind' = "reraise"
                  /\ children' = children]_vars

CrashedWithHeldChild ==
    /\ exitKind = "crash_pid"
    /\ process # 0
    /\ children[process].sigs = ExceptSignals
    /\ exitCode = PidOf(process)

CaptureRegionIsWindowRect ==
    [][(SpawnStep /\ InsideScreen(box))
          => /\ cmd'.offset_x = box[1]
             /\ cmd'.offset_y = box[2]
             /\ cmd'.video_w = box[3] - box[1]
             /\ cmd'.video_h = box[4] - box[2]]_vars

PidMirrorsProcess ==
    /\ [](PID = IF process = 0 THEN 0 ELSE PidOf(process))
    /\ [][/\ (process' # process) <=> (PID' # PID)
          /\ process # 0 => ~SpawnStep
          /\ (process # 0 /\ process' # process)
                => process' = 0 /\ children'[process].sigs # <<>>
          /\ (process = 0 /\ process' # 0) => SpawnStep
          /\ process = 0
                => \A h \in Handles : children'[h].sigs = children[h].sigs]_vars

PidMirrorsAfterRestart ==
    /\ process # 0
    /\ PID = PidOf(process)
    /\ \E h \in Handles : children[h].pc = "done"

\* C10: a child is spawned only with hwid non-zero and a box that is not
\* all negative; in any other state nothing is spawned and no step hands
\* out a process handle, sets PID or sets started.
SpawnOnlyWithUsableWindow ==
    [][/\ SpawnStep
            => hwid # 0 /\ ~AllNegative(box) /\ hwid' = hwid /\ box' = box
       /\ (hwid = 0 \/ AllNegative(box))
            => /\ ~SpawnStep
               /\ process' # process => process' = 0
               /\ PID' # PID => PID' = 0
               /\ started' => started]_vars

SpawnedWithUsableWindow ==
    /\ process # 0
    /\ children[process].sigs = <<>>
    /\ hwid # 0
    /\ ~AllNegative(box)

====
